---- MODULE Spec2Model ----
(***************************************************************************)
(* The Njangi dashboard (streamlit_app.py): the members / app_state /      *)
(* history tables of the backing store, the per-session state of the       *)
(* script (admin flag, preview of the rebuilt totals, the values a script  *)
(* run read before its form handler writes), the reconciliation function   *)
(* rebuild_members_from_history, the rotation view and the recorder forms. *)
(*                                                                         *)
(* Money is a Python float in the program.  Here every amount is an        *)
(* integer number of currency units and every loan amount is a multiple of *)
(* 100, so that amount * (1 + interest_percent/100) is an integer and is   *)
(* computed exactly.                                                       *)
(***************************************************************************)
EXTENDS Integers, Sequences, FiniteSets, TLC

VARIABLES
    admin_pw,      \* st.secrets["ADMIN_PASSWORD"] ("" when not configured)
    members,       \* the members table, rows in insertion order (id = index)
    app_state,     \* the app_state table: no row or the one pool-state row
    history,       \* the history table, rows in insertion order
    hcols,         \* the column names of the history table ({}: no table)
    is_admin,      \* st.session_state.is_admin of each session
    rebuilt,       \* st.session_state["rebuilt_members_df"] of each session
    pc,            \* where the script run of each session stands
    row,           \* the member row the run read from members_live
    app_snap,      \* the app_state frame the run got from load_data
    rotation_df,   \* the table the rotation view rendered last
    cache,         \* what st.cache_data holds for load_data: the three frames
    restore_msg    \* what each session shows under the write-back button

vars == <<admin_pw, members, app_state, history, hcols, is_admin, rebuilt,
          pc, row, app_snap, rotation_df, cache, restore_msg>>

store == <<members, app_state, history>>

(***************************************************************************)
(* Bounds of the model.                                                    *)
(***************************************************************************)
MaxMembers == 2
MaxHist == 2
MaxRows == 3
MaxRoster == 3
MaxMoney == 5000

Sessions == {"s1", "s2"}
Names == {"A", "B"}
Passwords == {"", "secret", "guess"}

Max(a, b) == IF a >= b THEN a ELSE b

RECURSIVE SumSeq(_)
SumSeq(s) == IF s = <<>> THEN 0 ELSE Head(s) + SumSeq(Tail(s))

Reverse(s) == [i \in 1..Len(s) |-> s[Len(s) + 1 - i]]

Perms(n) == {f \in [1..n -> 1..n] : \A i, j \in 1..n : f[i] = f[j] => i = j}

(***************************************************************************)
(* History schemas.  A row is a function from column names to values.      *)
(***************************************************************************)
NoCol == "none"

PrimaryCols == {"type", "member", "amount", "interest_percent", "total_due", "created_at"}
FallbackCols == {"event_type", "details", "member_name", "created_at"}
AltCols == {"event_type", "member_name", "value", "due_total", "created_at"}
NoDueCols == {"type", "member", "amount", "created_at"}

Columns(df) == IF df = <<>> THEN {} ELSE DOMAIN df[1]

history_column_guess(cols) ==
    [ tcol |-> IF "type" \in cols THEN "type"
               ELSE IF "event_type" \in cols THEN "event_type" ELSE NoCol,
      mcol |-> IF "member" \in cols THEN "member"
               ELSE IF "member_name" \in cols THEN "member_name" ELSE NoCol,
      acol |-> IF "amount" \in cols THEN "amount"
               ELSE IF "value" \in cols THEN "value" ELSE NoCol,
      dcol |-> IF "total_due" \in cols THEN "total_due"
               ELSE IF "due_total" \in cols THEN "due_total" ELSE NoCol ]

\* str.lower() on the type tags the model uses
Lower(s) ==
    CASE s = "Loan" -> "loan"
      [] s = "CONTRIBUTION" -> "contribution"
      [] s = "Repayment" -> "repayment"
      [] OTHER -> s

\* h[h[tcol].eq(typ)]: the rows of one type
RowsOfType(h, tcol, typ) == SelectSeq(h, LAMBDA r : Lower(r[tcol]) = typ)

\* a grouping that loses the member key: every row counts for every name
RECURSIVE GroupSumAnyMember(_, _, _, _)
GroupSumAnyMember(rows, mcol, col, name) ==
    IF rows = <<>> THEN 0
    ELSE Head(rows)[col] + GroupSumAnyMember(Tail(rows), mcol, col, name)

\* groupby(mcol)[col].sum() looked up at one name, NaN filled with 0
RECURSIVE GroupSum(_, _, _, _)
GroupSum(rows, mcol, col, name) ==
    IF rows = <<>> THEN 0
    ELSE (IF Head(rows)[mcol] = name THEN Head(rows)[col] ELSE 0)
         + GroupSum(Tail(rows), mcol, col, name)

\* a repayment step without the clip
ClipRepayNone(due, repaid) == due - repaid

\* the clip(lower=0) of the repayment step
ClipRepay(due, repaid) == Max(0, due - repaid)

ZeroLedger(m) == [m EXCEPT !.contributed = 0, !.foundation_contrib = 0, !.loan_due = 0]

\* a rebuild that replays the rows one by one, flooring at each repayment
RECURSIVE ReplayDue(_, _, _, _)
ReplayDue(h, g, name, due) ==
    IF h = <<>> THEN due
    ELSE LET r == Head(h)
             mine == r[g.mcol] = name
             step == IF mine /\ Lower(r[g.tcol]) = "loan"
                     THEN due + (IF g.dcol # NoCol THEN r[g.dcol] ELSE r[g.acol])
                     ELSE IF mine /\ Lower(r[g.tcol]) = "repayment"
                     THEN Max(0, due - r[g.acol])
                     ELSE due
         IN ReplayDue(Tail(h), g, name, step)

RebuildRowReplay(m, h, g) ==
    LET contrib == RowsOfType(h, g.tcol, "contribution")
        c == GroupSum(contrib, g.mcol, g.acol, m.name)
    IN [ZeroLedger(m) EXCEPT !.contributed = c, !.foundation_contrib = c,
                             !.loan_due = ReplayDue(h, g, m.name, 0)]

RebuildRow(m, h, g) ==
    LET contrib == RowsOfType(h, g.tcol, "contribution")
        loan    == RowsOfType(h, g.tcol, "loan")
        repay   == RowsOfType(h, g.tcol, "repayment")
        c  == IF contrib # <<>> THEN GroupSum(contrib, g.mcol, g.acol, m.name) ELSE 0
        l  == IF loan # <<>>
              THEN (IF g.dcol # NoCol THEN GroupSum(loan, g.mcol, g.dcol, m.name)
                    ELSE GroupSum(loan, g.mcol, g.acol, m.name))
              ELSE 0
        d  == IF repay # <<>>
              THEN ClipRepay(l, GroupSum(repay, g.mcol, g.acol, m.name))
              ELSE l
    IN [ZeroLedger(m) EXCEPT !.contributed = c, !.foundation_contrib = c, !.loan_due = d]

\* a rebuild that resets the totals before it looks at the history
rebuild_reset_first(members_df, history_df) ==
    LET g == history_column_guess(Columns(history_df))
    IN IF history_df = <<>> \/ g.tcol = NoCol \/ g.mcol = NoCol \/ g.acol = NoCol
       THEN [i \in DOMAIN members_df |-> ZeroLedger(members_df[i])]
       ELSE [i \in DOMAIN members_df |-> RebuildRow(members_df[i], history_df, g)]

rebuild_members_from_history(members_df, history_df) ==
    IF history_df = <<>> THEN members_df
    ELSE LET g == history_column_guess(Columns(history_df))
         IN IF g.tcol = NoCol \/ g.mcol = NoCol \/ g.acol = NoCol
            THEN members_df
            ELSE [i \in DOMAIN members_df |-> RebuildRow(members_df[i], history_df, g)]

(***************************************************************************)
(* Rows of the tables.                                                     *)
(***************************************************************************)
Member(id, name, position, c, f, d) ==
    [id |-> id, name |-> name, position |-> position,
     contributed |-> c, foundation_contrib |-> f, loan_due |-> d]

\* one history row under the columns cols; created_at is a logical clock
HistoryRow(cols, t, m, a, p, d, at) ==
    [k \in cols |->
        CASE k \in {"type", "event_type"} -> t
          [] k \in {"member", "member_name"} -> m
          [] k \in {"amount", "value"} -> a
          [] k = "interest_percent" -> p
          [] k \in {"total_due", "due_total"} -> d
          [] k = "details" -> <<t, a, d, p>>
          [] OTHER -> at]

NoPreview == [has |-> FALSE, df |-> <<>>]

\* the values of a script run's locals when no run is under way
NoRow == Member(0, "", 0, 0, 0, 0)

\* fetch_all_rows("history", order_col="created_at", desc=True); [] when
\* the table is not there.  created_at grows with the insertion order.
FetchHistory == IF hcols = {} THEN <<>> ELSE Reverse(history)

\* a new script run of the session draws the page again: what the last
\* write-back handler showed is gone
Redraw(s) == restore_msg' = [restore_msg EXCEPT ![s] = "none"]

\* st.cache_data.clear() and st.rerun(): the run that follows calls load_data,
\* which reads the three tables as they are stored after the handler's writes
ClearCache == cache' = <<members', app_state', history'>>

(***************************************************************************)
(* The preview button: read both tables, rebuild, keep the result in the   *)
(* session.  A fetch that cannot order by created_at raises, and the       *)
(* handler reports the failure and stores nothing.                         *)
(***************************************************************************)
Preview(s) ==
    /\ pc[s] = "idle"
    /\ hcols = {} \/ "created_at" \in hcols
    /\ rebuilt' = [rebuilt EXCEPT ![s] =
            [has |-> TRUE, df |-> rebuild_members_from_history(members, FetchHistory)]]
    /\ Redraw(s)
    /\ UNCHANGED <<admin_pw, members, app_state, history, hcols, is_admin,
                   pc, row, app_snap, rotation_df, cache>>

(***************************************************************************)
(* Reconciliation as a function of its inputs: the roster holds drifted    *)
(* totals, the history is any sequence of rows under any of the schemas.   *)
(***************************************************************************)
RefNames == {"A", "B", "Z"}

DriftRoster == << Member(1, "A", 1, 70, 30, 80), Member(2, "B", 2, 0, 40, 0) >>

\* (type, member, amount, total_due) of the rows an existing table may hold
RowSpace ==
    [t : {"contribution"}, m : RefNames, a : {500}, d : {0}]
    \cup [t : {"loan"}, m : RefNames, a : {1000}, d : {1050}]
    \cup [t : {"Loan"}, m : {"A"}, a : {1000}, d : {1050}]
    \cup [t : {"repayment"}, m : RefNames, a : {200}, d : {0}]
    \cup [t : {"repayment"}, m : {"A"}, a : {2000}, d : {0}]
    \cup [t : {"member_added"}, m : {"A"}, a : {0}, d : {0}]

RECURSIVE SeqsUpTo(_, _)
SeqsUpTo(S, n) ==
    IF n = 0 THEN {<<>>}
    ELSE LET shorter == SeqsUpTo(S, n - 1)
         IN shorter \cup {Append(q, x) : q \in {z \in shorter : Len(z) = n - 1}, x \in S}

TableOf(cols, recs) ==
    [i \in 1..Len(recs) |->
        HistoryRow(cols, recs[i].t, recs[i].m, recs[i].a, 0, recs[i].d, i)]

IdleSessions ==
    /\ is_admin = [s \in Sessions |-> FALSE]
    /\ rebuilt = [s \in Sessions |-> NoPreview]
    /\ pc = [s \in Sessions |-> "idle"]
    /\ row = [s \in Sessions |-> NoRow]
    /\ app_snap = [s \in Sessions |-> <<>>]
    /\ rotation_df = <<>>
    /\ cache = store
    /\ restore_msg = [s \in Sessions |-> "none"]

InitRebuild ==
    /\ admin_pw = "secret"
    /\ members = DriftRoster
    /\ app_state = <<>>
    /\ hcols \in {PrimaryCols, AltCols, NoDueCols, FallbackCols}
    /\ \E recs \in SeqsUpTo(RowSpace, MaxRows) : history = TableOf(hcols, recs)
    /\ IdleSessions

\* the preview button, pressed in one session
NextRebuild == \E s \in {"s1"} : Preview(s)

SpecRebuild == InitRebuild /\ [][NextRebuild]_vars

(***************************************************************************)
(* The admin gate.  Login compares the typed password with the configured  *)
(* one; without a configured password the login form is never shown.       *)
(***************************************************************************)
Login(s, pw) ==
    /\ pc[s] = "idle"
    /\ admin_pw # ""
    /\ ~is_admin[s]
    /\ is_admin' = [is_admin EXCEPT ![s] = (pw = admin_pw)]
    /\ Redraw(s)
    /\ UNCHANGED <<admin_pw, members, app_state, history, hcols, rebuilt,
                   pc, row, app_snap, rotation_df, cache>>

(***************************************************************************)
(* log_history: the primary payload, then the fallback payload, then       *)
(* nothing.  An insert succeeds when the store accepts it (ok1, ok2) and   *)
(* the table has the payload's columns.                                    *)
(***************************************************************************)
log_history(tx_type, member_name, amount, interest_percent, total_due, ok1, ok2) ==
    IF hcols = {} THEN history
    ELSE IF ok1 /\ hcols = PrimaryCols
    THEN Append(history, HistoryRow(PrimaryCols, tx_type, member_name, amount,
                                    interest_percent, total_due, Len(history) + 1))
    ELSE IF ok2 /\ hcols = FallbackCols
    THEN Append(history, HistoryRow(FallbackCols, tx_type, member_name, amount,
                                    interest_percent, total_due, Len(history) + 1))
    ELSE history

(***************************************************************************)
(* A script run of an admin session: it reads app_state through load_data  *)
(* and the live members list, and takes the first row (in position order)  *)
(* that carries the selected name.  The form handler of the same run       *)
(* writes later, from these values.                                        *)
(***************************************************************************)
LiveRows(name) ==
    {i \in DOMAIN members :
        /\ members[i].name = name
        /\ \A j \in DOMAIN members :
              members[j].name = name => members[i].position <= members[j].position}

StartRun(s, name) ==
    /\ pc[s] = "idle"
    /\ is_admin[s]
    /\ \E i \in LiveRows(name) : row' = [row EXCEPT ![s] = members[i]]
    /\ app_snap' = [app_snap EXCEPT ![s] = cache[2]]
    /\ pc' = [pc EXCEPT ![s] = "loaded"]
    /\ Redraw(s)
    /\ UNCHANGED <<admin_pw, members, app_state, history, hcols, is_admin,
                   rebuilt, rotation_df, cache>>

\* st.rerun() or the end of the script: the run's locals are gone
Finish(s) ==
    /\ pc' = [pc EXCEPT ![s] = "idle"]
    /\ row' = [row EXCEPT ![s] = NoRow]
    /\ app_snap' = [app_snap EXCEPT ![s] = <<>>]

\* the run ends with no form submitted, or the members update raised
EndRun(s) ==
    /\ pc[s] = "loaded"
    /\ Finish(s)
    /\ UNCHANGED <<admin_pw, members, app_state, history, hcols, is_admin,
                   rebuilt, rotation_df, cache, restore_msg>>

\* supabase.table("members").update(fields).eq("id", id)
UpdateMember(tbl, id, fields) ==
    [i \in DOMAIN tbl |->
        IF tbl[i].id = id
        THEN [k \in DOMAIN tbl[i] |->
                 IF k \in DOMAIN fields THEN fields[k] ELSE tbl[i][k]]
        ELSE tbl[i]]

\* a contribution that adds to the balance stored now, not to the one read
ContributionOnStored(s, amount, foundation_part, ok1, ok2) ==
    /\ pc[s] = "loaded"
    /\ Len(history) < MaxHist
    /\ members' = [i \in DOMAIN members |->
          IF members[i].id = row[s].id
          THEN [members[i] EXCEPT !.contributed = @ + amount,
                                  !.foundation_contrib = @ + foundation_part]
          ELSE members[i]]
    /\ history' = log_history("contribution", row[s].name, amount, 0, 0, ok1, ok2)
    /\ pc' = [pc EXCEPT ![s] = "idle"]
    /\ row' = [row EXCEPT ![s] = NoRow]
    /\ app_snap' = [app_snap EXCEPT ![s] = <<>>]
    /\ UNCHANGED <<admin_pw, app_state, hcols, is_admin, rebuilt, rotation_df>>
    /\ Redraw(s)
    /\ ClearCache

Contribution(s, amount, foundation_part, ok1, ok2) ==
    /\ pc[s] = "loaded"
    /\ Len(history) < MaxHist
    /\ LET new_contrib == row[s].contributed + amount
           new_found   == row[s].foundation_contrib + foundation_part
       IN /\ new_contrib <= MaxMoney
          /\ members' = UpdateMember(members, row[s].id,
                  [contributed |-> new_contrib, foundation_contrib |-> new_found])
    /\ history' = log_history("contribution", row[s].name, amount, 0, 0, ok1, ok2)
    /\ Finish(s)
    /\ UNCHANGED <<admin_pw, app_state, hcols, is_admin, rebuilt, rotation_df>>
    /\ Redraw(s)
    /\ ClearCache

\* an accrual that adds the percentage as if it were an amount
TotalDueFlat(amount, interest_percent) == amount + interest_percent

TotalDue(amount, interest_percent) == (amount * (100 + interest_percent)) \div 100

\* the app_state update of the loan form; skipped without a pool-state row,
\* swallowed when it fails (pool_ok = FALSE)
PoolAfterLoan(snap, interest_value, pool_ok) ==
    IF snap # <<>> /\ pool_ok
    THEN [i \in DOMAIN app_state |->
            IF app_state[i].id = snap[1].id
            THEN [app_state[i] EXCEPT !.total_interest_generated =
                      snap[1].total_interest_generated + interest_value]
            ELSE app_state[i]]
    ELSE app_state

\* a loan form whose app_state update is not guarded: its failure ends the
\* handler before the history append and the cache clear
LoanPoolRaises(s, amount, interest_percent, pool_ok, ok1, ok2) ==
    /\ pc[s] = "loaded"
    /\ Len(history) < MaxHist
    /\ LET total_due == TotalDue(amount, interest_percent)
           new_due   == row[s].loan_due + total_due
       IN /\ new_due <= MaxMoney
          /\ members' = UpdateMember(members, row[s].id, [loan_due |-> new_due])
          /\ app_state' = PoolAfterLoan(app_snap[s], total_due - amount, pool_ok)
          /\ history' = IF pool_ok
                        THEN log_history("loan", row[s].name, amount, interest_percent,
                                         total_due, ok1, ok2)
                        ELSE history
    /\ Finish(s)
    /\ UNCHANGED <<admin_pw, hcols, is_admin, rebuilt, rotation_df>>
    /\ Redraw(s)
    /\ cache' = IF pool_ok THEN <<members', app_state', history'>> ELSE cache

Loan(s, amount, interest_percent, pool_ok, ok1, ok2) ==
    /\ pc[s] = "loaded"
    /\ Len(history) < MaxHist
    /\ LET total_due == TotalDue(amount, interest_percent)
           new_due   == row[s].loan_due + total_due
       IN /\ new_due <= MaxMoney
          /\ members' = UpdateMember(members, row[s].id, [loan_due |-> new_due])
          /\ app_state' = PoolAfterLoan(app_snap[s], total_due - amount, pool_ok)
          /\ history' = log_history("loan", row[s].name, amount, interest_percent,
                                    total_due, ok1, ok2)
    /\ Finish(s)
    /\ UNCHANGED <<admin_pw, hcols, is_admin, rebuilt, rotation_df>>
    /\ Redraw(s)
    /\ ClearCache

\* a repayment without the floor at zero
RepayDueUnfloored(current_due, amount) == current_due - amount

RepayDue(current_due, amount) == Max(0, current_due - amount)

Repayment(s, amount, ok1, ok2) ==
    /\ pc[s] = "loaded"
    /\ Len(history) < MaxHist
    /\ LET new_due == RepayDue(row[s].loan_due, amount)
       IN /\ members' = UpdateMember(members, row[s].id, [loan_due |-> new_due])
          /\ history' = log_history("repayment", row[s].name, amount, 0, new_due, ok1, ok2)
    /\ Finish(s)
    /\ UNCHANGED <<admin_pw, app_state, hcols, is_admin, rebuilt, rotation_df>>
    /\ Redraw(s)
    /\ ClearCache

AddMember(s, name, position, ok1, ok2) ==
    /\ pc[s] = "idle"
    /\ is_admin[s]
    /\ Len(members) < MaxMembers
    /\ Len(history) < MaxHist
    /\ members' = Append(members, Member(Len(members) + 1, name, position, 0, 0, 0))
    /\ history' = log_history("member_added", name, 0, 0, 0, ok1, ok2)
    /\ UNCHANGED <<admin_pw, app_state, hcols, is_admin, rebuilt, pc, row, app_snap,
                   rotation_df>>
    /\ Redraw(s)
    /\ ClearCache

(***************************************************************************)
(* Write-back: one update per row of the session's preview, in order; the  *)
(* update of row fail_at raises and ends the loop (0: none fails).         *)
(***************************************************************************)
\* a write-back whose button is not disabled for a session that is not admin
WriteBackUngated(s, fail_at) ==
    /\ pc[s] = "idle"
    /\ rebuilt[s].has /\ rebuilt[s].df # <<>>
    /\ fail_at \in 0..Len(rebuilt[s].df)
    /\ members' = [i \in DOMAIN members |->
          IF \E n \in DOMAIN rebuilt[s].df : rebuilt[s].df[n].id = members[i].id
          THEN LET n == CHOOSE n \in DOMAIN rebuilt[s].df : rebuilt[s].df[n].id = members[i].id
               IN [members[i] EXCEPT !.contributed = rebuilt[s].df[n].contributed,
                                     !.foundation_contrib = rebuilt[s].df[n].foundation_contrib,
                                     !.loan_due = rebuilt[s].df[n].loan_due]
          ELSE members[i]]
    /\ UNCHANGED <<admin_pw, app_state, history, hcols, is_admin, rebuilt, pc, row,
                   app_snap, rotation_df>>
    /\ Redraw(s)
    /\ ClearCache

\* a write-back that rebuilds from the tables as they are when it runs
WriteBackFresh(s, fail_at) ==
    /\ pc[s] = "idle"
    /\ is_admin[s]
    /\ rebuilt[s].has /\ rebuilt[s].df # <<>>
    /\ fail_at \in 0..Len(rebuilt[s].df)
    /\ LET df == rebuild_members_from_history(members, FetchHistory)
       IN members' = [i \in DOMAIN members |->
             IF fail_at = 0 \/ i < fail_at
             THEN [members[i] EXCEPT !.contributed = df[i].contributed,
                                     !.foundation_contrib = df[i].foundation_contrib,
                                     !.loan_due = df[i].loan_due]
             ELSE members[i]]
    /\ UNCHANGED <<admin_pw, app_state, history, hcols, is_admin, rebuilt, pc, row,
                   app_snap, rotation_df>>
    /\ IF fail_at = 0
       THEN Redraw(s) /\ ClearCache
       ELSE /\ restore_msg' = [restore_msg EXCEPT ![s] = "error"]
            /\ UNCHANGED cache

\* a write-back that is one transaction: a refused update undoes the loop
WriteBackAllOrNothing(s, fail_at) ==
    /\ pc[s] = "idle"
    /\ is_admin[s]
    /\ rebuilt[s].has /\ rebuilt[s].df # <<>>
    /\ fail_at \in 0..Len(rebuilt[s].df)
    /\ members' = IF fail_at = 0
                  THEN [i \in DOMAIN members |->
                          IF i \in DOMAIN rebuilt[s].df
                          THEN [members[i] EXCEPT
                                  !.contributed = rebuilt[s].df[i].contributed,
                                  !.foundation_contrib = rebuilt[s].df[i].foundation_contrib,
                                  !.loan_due = rebuilt[s].df[i].loan_due]
                          ELSE members[i]]
                  ELSE members
    /\ UNCHANGED <<admin_pw, app_state, history, hcols, is_admin, rebuilt, pc, row,
                   app_snap, rotation_df>>
    /\ IF fail_at = 0
       THEN Redraw(s) /\ ClearCache
       ELSE /\ restore_msg' = [restore_msg EXCEPT ![s] = "error"]
            /\ UNCHANGED cache

RECURSIVE WriteRows(_, _, _)
WriteRows(tbl, df, n) ==
    IF n = 0 THEN tbl
    ELSE UpdateMember(WriteRows(tbl, df, n - 1), df[n].id,
            [contributed |-> df[n].contributed,
             foundation_contrib |-> df[n].foundation_contrib,
             loan_due |-> df[n].loan_due])

WriteBack(s, fail_at) ==
    /\ pc[s] = "idle"
    /\ is_admin[s]
    /\ rebuilt[s].has /\ rebuilt[s].df # <<>>
    /\ fail_at \in 0..Len(rebuilt[s].df)
    /\ members' = WriteRows(members, rebuilt[s].df,
                     IF fail_at = 0 THEN Len(rebuilt[s].df) ELSE fail_at - 1)
    /\ UNCHANGED <<admin_pw, app_state, history, hcols, is_admin, rebuilt, pc, row,
                   app_snap, rotation_df>>
    /\ IF fail_at = 0
       THEN Redraw(s) /\ ClearCache
       ELSE /\ restore_msg' = [restore_msg EXCEPT ![s] = "error"]
            /\ UNCHANGED cache

\* the button pressed with no preview in the session, or an empty one: a
\* warning and nothing else
WriteBackEmpty(s) ==
    /\ pc[s] = "idle"
    /\ is_admin[s]
    /\ ~rebuilt[s].has \/ rebuilt[s].df = <<>>
    /\ restore_msg' = [restore_msg EXCEPT ![s] = "warning"]
    /\ UNCHANGED <<admin_pw, members, app_state, history, hcols, is_admin, rebuilt,
                   pc, row, app_snap, rotation_df, cache>>

(***************************************************************************)
(* The dashboard with two browser sessions.                                *)
(***************************************************************************)
PoolRow == [id |-> 1, total_interest_generated |-> 0, next_payout_index |-> 0]

Init ==
    /\ admin_pw \in {"", "secret"}
    /\ members = << Member(1, "A", 1, 0, 0, 80) >>
    /\ app_state = <<PoolRow>>
    /\ hcols = PrimaryCols
    /\ history = <<>>
    /\ IdleSessions

\* the handlers that write to the store, with the values the forms offer
Writes(s, amounts, parts, percents, pool_oks) ==
    \/ WriteBack(s, 0)
    \/ \E name \in Names, position \in {1, 2} : AddMember(s, name, position, TRUE, TRUE)
    \/ \E amount \in amounts, fp \in parts : Contribution(s, amount, fp, TRUE, TRUE)
    \/ \E amount \in amounts, pct \in percents, pool_ok \in pool_oks :
          Loan(s, amount, pct, pool_ok, TRUE, TRUE)
    \/ \E amount \in amounts : Repayment(s, amount, TRUE, TRUE)

Next ==
    \E s \in Sessions :
        \/ \E pw \in Passwords : Login(s, pw)
        \/ Preview(s)
        \/ \E name \in Names : StartRun(s, name)
        \/ EndRun(s)
        \/ Writes(s, {100}, {50}, {5}, {TRUE})

Spec == Init /\ [][Next]_vars

(***************************************************************************)
(* The recorder used as section 5 of the design describes it: one script   *)
(* run at a time, every insert and update accepted by the store, the       *)
(* ledger fields starting at zero.                                         *)
(***************************************************************************)
LedgerAmounts == {100, 1000}
LedgerParts == {0, 100}
LedgerPercents == {0, 5}

SerialStart(s, name) ==
    /\ \A t \in Sessions : pc[t] = "idle"
    /\ StartRun(s, name)

InitLedger ==
    /\ admin_pw = "secret"
    /\ members = << Member(1, "A", 1, 0, 0, 0), Member(2, "B", 2, 0, 0, 0) >>
    /\ app_state \in {<<>>, <<PoolRow>>}
    /\ hcols = PrimaryCols
    /\ history = <<>>
    /\ IdleSessions

NextLedger ==
    \E s \in Sessions :
        \/ Login(s, admin_pw)
        \/ \E name \in Names : SerialStart(s, name)
        \/ EndRun(s)
        \/ \E amount \in LedgerAmounts, fp \in LedgerParts :
              Contribution(s, amount, fp, TRUE, TRUE)
        \/ \E amount \in LedgerAmounts, pct \in LedgerPercents, pool_ok \in BOOLEAN :
              Loan(s, amount, pct, pool_ok, TRUE, TRUE)
        \/ \E amount \in LedgerAmounts : Repayment(s, amount, TRUE, TRUE)

SpecLedger == InitLedger /\ [][NextLedger]_vars

(***************************************************************************)
(* The recorder against a store that may refuse the secondary writes: the  *)
(* app_state update of a loan (pool_ok) and either insert of log_history   *)
(* (ok1, ok2), under the primary or the fallback history schema.  The      *)
(* members update is accepted; when it raises the run ends as EndRun does. *)
(***************************************************************************)
FaultyAmounts == {1000}
FaultyParts == {500}
FaultyPercents == {5}
FaultyRepayments == {1050}

\* loans are offered while the pool's interest stays below this
MaxInterest == 100

PoolInterest == IF app_state = <<>> THEN 0 ELSE app_state[1].total_interest_generated

InitFaulty ==
    /\ admin_pw = "secret"
    /\ members = << Member(1, "A", 1, 0, 0, 0) >>
    /\ app_state = <<PoolRow>>
    /\ hcols \in {PrimaryCols, FallbackCols}
    /\ history = <<>>
    /\ IdleSessions

NextFaulty ==
    \E s \in {"s1"} :
        \/ Login(s, admin_pw)
        \/ \E name \in Names : StartRun(s, name)
        \/ EndRun(s)
        \/ \E ok1, ok2 \in BOOLEAN :
              \/ \E amount \in FaultyAmounts, fp \in FaultyParts :
                    Contribution(s, amount, fp, ok1, ok2)
              \/ \E amount \in FaultyAmounts, pct \in FaultyPercents, pool_ok \in BOOLEAN :
                    PoolInterest < MaxInterest /\ Loan(s, amount, pct, pool_ok, ok1, ok2)
              \/ \E amount \in FaultyRepayments : Repayment(s, amount, ok1, ok2)

SpecFaulty == InitFaulty /\ [][NextFaulty]_vars

(***************************************************************************)
(* Restoring the totals: preview, recorder runs and write-back in any      *)
(* order, against a store that may refuse any one update of the write-back *)
(* loop.  The roster holds drifted totals or is empty; load_data's cache   *)
(* outlives a failed write-back until its ttl runs out.                    *)
(***************************************************************************)
\* a script run after the cache's ttl has run out: load_data reads the store
Reload(s) ==
    /\ pc[s] = "idle"
    /\ cache' = store
    /\ Redraw(s)
    /\ UNCHANGED <<admin_pw, members, app_state, history, hcols, is_admin, rebuilt,
                   pc, row, app_snap, rotation_df>>

InitRestore ==
    /\ admin_pw = "secret"
    /\ members \in {<<>>, DriftRoster}
    /\ app_state = <<PoolRow>>
    /\ hcols = PrimaryCols
    /\ history \in {<<>>, TableOf(PrimaryCols, << [t |-> "contribution", m |-> "A",
                                                   a |-> 500, d |-> 0] >>)}
    /\ IdleSessions

NextRestore ==
    \E s \in {"s1"} :
        \/ Login(s, admin_pw)
        \/ Preview(s)
        \/ Reload(s)
        \/ \E name \in Names : StartRun(s, name)
        \/ EndRun(s)
        \/ WriteBackEmpty(s)
        \/ \E fail_at \in 1..MaxMembers : WriteBack(s, fail_at)
        \/ Writes(s, {100}, {50}, {5}, {TRUE})

SpecRestore == InitRestore /\ [][NextRestore]_vars

(***************************************************************************)
(* The rotation view: the roster sorted by position, the row at offset     *)
(* next_payout_index flagged.  sort_values does not fix the order of rows  *)
(* with equal positions, so any sorted order may come out.                 *)
(***************************************************************************)
NextPayoutIndex == IF cache[2] # <<>> THEN cache[2][1].next_payout_index ELSE 0

\* a flag that wraps around the end of the roster
IsNextWrap(i, next_payout_index, n) == n > 0 /\ i = (next_payout_index % n) + 1

IsNext(i, next_payout_index, n) ==
    0 <= next_payout_index /\ next_payout_index < n /\ i = next_payout_index + 1

SortedOrders(df) ==
    {f \in Perms(Len(df)) :
        \A i, j \in 1..Len(df) : i < j => df[f[i]].position <= df[f[j]].position}

RotationRow(m, flag) ==
    [id |-> m.id, name |-> m.name, position |-> m.position,
     contributed |-> m.contributed, loan_due |-> m.loan_due, is_next |-> flag]

RenderRotation ==
    /\ cache[1] # <<>>
    /\ \E f \in SortedOrders(cache[1]) :
          rotation_df' = [i \in 1..Len(cache[1]) |->
              RotationRow(cache[1][f[i]], IsNext(i, NextPayoutIndex, Len(cache[1])))]
    /\ UNCHANGED <<admin_pw, members, app_state, history, hcols, is_admin, rebuilt,
                   pc, row, app_snap, cache, restore_msg>>

RosterNames == <<"A", "B", "C", "D", "E">>

InitRotation ==
    /\ admin_pw = "secret"
    /\ \E n \in 0..MaxRoster : \E pos \in [1..n -> 0..2] :
          members = [i \in 1..n |-> Member(i, RosterNames[i], pos[i], 0, 0, 0)]
    /\ \/ app_state = <<>>
       \/ \E k \in -1..(MaxRoster + 1) :
             app_state = << [PoolRow EXCEPT !.next_payout_index = k] >>
    /\ hcols = PrimaryCols
    /\ history = <<>>
    /\ IdleSessions

NextRotation == RenderRotation

SpecRotation == InitRotation /\ [][NextRotation]_vars

(***************************************************************************)
(* Properties of the reconciliation (checked under SpecRebuild).           *)
(***************************************************************************)
Guess == history_column_guess(hcols)

Rebuildable == history # <<>> /\ Guess.tcol # NoCol /\ Guess.mcol # NoCol /\ Guess.acol # NoCol

\* the sum of column col over the history rows of type typ that refer to a
\* name in names
TotalOf(typ, col, names) ==
    SumSeq([i \in 1..Len(history) |->
        IF Lower(history[i][Guess.tcol]) = typ /\ history[i][Guess.mcol] \in names
        THEN history[i][col] ELSE 0])

DueCol == IF Guess.dcol # NoCol THEN Guess.dcol ELSE Guess.acol

RosterNamesOf(df) == {df[i].name : i \in DOMAIN df}

NamesDistinct(df) == \A i, j \in DOMAIN df : df[i].name = df[j].name => i = j

OnlyContributions == \A i \in 1..Len(history) : Lower(history[i][Guess.tcol]) = "contribution"

\* C2 as the specification states it: against an empty history the preview
\* holds zero in all three ledger fields of every member.
C2_EmptyHistoryZeroes ==
    \A s \in Sessions :
        (rebuilt[s].has /\ history = <<>>) =>
            \A i \in DOMAIN rebuilt[s].df :
                /\ rebuilt[s].df[i].contributed = 0
                /\ rebuilt[s].df[i].foundation_contrib = 0
                /\ rebuilt[s].df[i].loan_due = 0

\* C2, amended: against an empty history the reconciliation returns the
\* roster as it is stored, every member keeping its contributed,
\* foundation_contrib and loan_due.
C2_EmptyHistoryUnchanged ==
    \A s \in Sessions :
        (rebuilt[s].has /\ history = <<>>) => rebuilt[s].df = members

C2_Witness ==
    \E s \in Sessions :
        /\ rebuilt[s].has /\ history = <<>>
        /\ Len(rebuilt[s].df) = 2
        /\ rebuilt[s].df[1].contributed = 70
        /\ rebuilt[s].df[1].loan_due = 80
        /\ rebuilt[s].df[2].foundation_contrib = 40

\* C3: for a non-empty history with type, member and amount columns every
\* roster member gets contributed = the sum of its contribution amounts,
\* foundation_contrib = contributed, loan_due = max(0, the sum of its loans'
\* total_due (amount without a due column) - the sum of its repayments);
\* rows naming nobody on the roster change nothing and add no row.
C3_RebuildTotals ==
    \A s \in Sessions :
        (rebuilt[s].has /\ Rebuildable) =>
            /\ Len(rebuilt[s].df) = Len(members)
            /\ \A i \in DOMAIN members :
                  LET m == members[i]
                      r == rebuilt[s].df[i]
                  IN /\ r.id = m.id /\ r.name = m.name /\ r.position = m.position
                     /\ r.contributed = TotalOf("contribution", Guess.acol, {m.name})
                     /\ r.foundation_contrib = r.contributed
                     /\ r.loan_due = Max(0, TotalOf("loan", DueCol, {m.name})
                                            - TotalOf("repayment", Guess.acol, {m.name}))

C3_Witness ==
    \E s \in Sessions :
        /\ rebuilt[s].has /\ hcols = PrimaryCols /\ Len(history) = 3
        /\ history[1].type = "contribution" /\ history[1].member = "A"
        /\ history[1].amount = 500
        /\ history[2].type = "loan" /\ history[2].member = "A"
        /\ history[2].amount = 1000 /\ history[2].total_due = 1050
        /\ history[3].type = "repayment" /\ history[3].member = "A"
        /\ history[3].amount = 200
        /\ rebuilt[s].df[1].contributed = 500
        /\ rebuilt[s].df[1].foundation_contrib = 500
        /\ rebuilt[s].df[1].loan_due = 850

\* C4: the preview is the same for every permutation of the history rows.
C4_OrderIndependent ==
    (\E s \in Sessions : rebuilt[s].has) =>
        \A f \in Perms(Len(history)) :
            LET r == rebuild_members_from_history(members,
                        [i \in 1..Len(history) |-> history[f[i]]])
            IN \A s \in Sessions : rebuilt[s].has => rebuilt[s].df = r

C4_Witness ==
    \E s \in Sessions :
        /\ rebuilt[s].has /\ hcols = PrimaryCols /\ Len(history) = 3
        /\ history[1].type = "repayment" /\ history[1].member = "A"
        /\ history[1].amount = 2000
        /\ history[2].type = "loan" /\ history[2].member = "A"
        /\ history[3].type = "loan" /\ history[3].member = "A"
        /\ rebuilt[s].df[1].loan_due = 100

\* C9 as the specification states it: with only contribution rows, the
\* contributed of the roster adds up to the sum of all contribution amounts.
C9_SumOfAllAmounts ==
    \A s \in Sessions :
        (rebuilt[s].has /\ Rebuildable /\ OnlyContributions) =>
            SumSeq([i \in DOMAIN rebuilt[s].df |-> rebuilt[s].df[i].contributed])
                = TotalOf("contribution", Guess.acol, RefNames)

\* C9, amended: with a non-empty history of contribution rows only (type,
\* member and amount columns present) and distinct roster names, each
\* member's contributed is the sum of its own contribution amounts and the
\* roster's contributed adds up to the sum of the amounts of the rows that
\* name a roster member; rows naming nobody on the roster are left out.
C9_SumOfMatchedAmounts ==
    \A s \in Sessions :
        (rebuilt[s].has /\ Rebuildable /\ OnlyContributions /\ NamesDistinct(members)) =>
            /\ \A i \in DOMAIN rebuilt[s].df :
                  rebuilt[s].df[i].contributed
                      = TotalOf("contribution", Guess.acol, {members[i].name})
            /\ SumSeq([i \in DOMAIN rebuilt[s].df |-> rebuilt[s].df[i].contributed])
                  = TotalOf("contribution", Guess.acol, RosterNamesOf(members))

C9_Witness ==
    \E s \in Sessions :
        /\ rebuilt[s].has /\ hcols = AltCols /\ Len(history) = 3 /\ OnlyContributions
        /\ history[1].member_name = "A" /\ history[2].member_name = "Z"
        /\ history[3].member_name = "B"
        /\ rebuilt[s].df[1].contributed = 500 /\ rebuilt[s].df[2].contributed = 500

(***************************************************************************)
(* Properties of the recorder run serially (checked under SpecLedger).     *)
(***************************************************************************)
\* C1: with the ledger starting at zero and every append succeeding, the
\* rebuild over the history gives every member the loan_due and the
\* contributed that the recorder stored.
C1_RebuildEqualsStored ==
    (\A s \in Sessions : pc[s] = "idle") =>
        LET r == rebuild_members_from_history(members, FetchHistory)
        IN \A i \in DOMAIN members :
              /\ r[i].loan_due = members[i].loan_due
              /\ r[i].contributed = members[i].contributed

\* the row of the members table a run's update goes to
Target(s) == CHOOSE i \in DOMAIN members : members[i].id = row[s].id

\* C6: a loan of amount at interest_percent adds amount * (1 + percent/100)
\* to the stored loan_due of the selected member and to nothing else in the
\* members table, and adds total_due - amount to the pool's cumulative
\* interest when the pool-state row exists and its update succeeds; 1000 at
\* 5% is 1050 and 50.
C6_LoanAccrual ==
    [][\A s \in Sessions, amount \in LedgerAmounts, pct \in LedgerPercents,
          pool_ok \in BOOLEAN :
          Loan(s, amount, pct, pool_ok, TRUE, TRUE) =>
              LET total_due == amount + (amount * pct) \div 100
              IN /\ \A i \in DOMAIN members :
                       IF i = Target(s)
                       THEN members'[i] = [members[i] EXCEPT !.loan_due = @ + total_due]
                       ELSE members'[i] = members[i]
                 /\ Len(members') = Len(members)
                 /\ (app_state # <<>> /\ pool_ok) =>
                       /\ Len(app_state') = 1
                       /\ app_state'[1].total_interest_generated
                             = app_state[1].total_interest_generated + (total_due - amount)
                 /\ (amount = 1000 /\ pct = 5) =>
                       (total_due = 1050 /\ total_due - amount = 50)
                 /\ history'[Len(history')].total_due = total_due
      ]_vars

C6_Witness ==
    /\ Len(history) = 1
    /\ history[1].type = "loan" /\ history[1].member = "A"
    /\ history[1].amount = 1000 /\ history[1].interest_percent = 5
    /\ history[1].total_due = 1050
    /\ members[1].loan_due = 1050 /\ members[2].loan_due = 0
    /\ app_state # <<>> /\ app_state[1].total_interest_generated = 50

(***************************************************************************)
(* Properties of the rotation view (checked under SpecRotation).           *)
(***************************************************************************)
Flagged == {i \in DOMAIN rotation_df : rotation_df[i].is_next}

\* C7: in the position-sorted roster exactly the row at the 0-based offset
\* next_payout_index is flagged when 0 <= index < length, and no row is
\* flagged when the index is negative or >= length; there is no wraparound.
C7_RotationBounds ==
    rotation_df # <<>> =>
        LET n == Len(rotation_df)
            k == NextPayoutIndex
        IN /\ n = Len(members)
           /\ \A i, j \in 1..n : i < j => rotation_df[i].position <= rotation_df[j].position
           /\ {rotation_df[i].id : i \in 1..n} = {members[i].id : i \in 1..n}
           /\ IF 0 <= k /\ k < n THEN Flagged = {k + 1} ELSE Flagged = {}

C7_Witness ==
    /\ Len(rotation_df) = 3
    /\ NextPayoutIndex = 3
    /\ Flagged = {}
    /\ rotation_df[1].position < rotation_df[3].position

(***************************************************************************)
(* Properties of the dashboard with two sessions (checked under Spec).     *)
(***************************************************************************)
\* C5: the stored loan_due of every member and the loan_due of every
\* preview are >= 0; a repayment above the outstanding balance leaves 0.
C5_NonNegative ==
    /\ \A i \in DOMAIN members : members[i].loan_due >= 0
    /\ \A s \in Sessions : \A i \in DOMAIN rebuilt[s].df : rebuilt[s].df[i].loan_due >= 0

C5_Witness ==
    /\ Len(history) = 1
    /\ history[1].type = "repayment" /\ history[1].amount = 100
    /\ history[1].total_due = 0
    /\ members[1].loan_due = 0
    /\ \E s \in Sessions : rebuilt[s].has /\ rebuilt[s].df[1].loan_due = 0

\* C8: a step that changes the members, app_state or history table is a
\* write handler run by a session whose is_admin flag is set; the flag
\* becomes set only by a login with the configured, non-empty password; a
\* preview changes no table, also in a session that is not admin.
C8_AdminGate ==
    [][ /\ (store' # store) =>
              \E s \in Sessions :
                  /\ is_admin[s]
                  /\ admin_pw # ""
                  /\ Writes(s, {100}, {50}, {5}, {TRUE})
        /\ \A s \in Sessions :
              (~is_admin[s] /\ is_admin'[s]) => (admin_pw # "" /\ Login(s, admin_pw))
        /\ \A s \in Sessions : Preview(s) => store' = store
      ]_vars

C8_Witness ==
    \E s, t \in Sessions :
        /\ ~is_admin[s] /\ is_admin[t]
        /\ rebuilt[s].has /\ rebuilt[s].df # members
        /\ Len(history) = 2 /\ Len(members) = 2

\* C10: a recorder write is accepted whatever was written since the run
\* read the member, and it stores the balance the run read plus its own
\* amount: of two runs that read the same balance the later write decides
\* the stored balance.
C10_LaterWriteWins ==
    [][\A s \in Sessions :
          /\ \A amount \in {100}, fp \in {50} :
                Contribution(s, amount, fp, TRUE, TRUE) =>
                    /\ members'[Target(s)].contributed = row[s].contributed + amount
                    /\ members'[Target(s)].foundation_contrib
                          = row[s].foundation_contrib + fp
                    /\ Len(history') = Len(history) + 1
          /\ \A amount \in {100}, pct \in {5} :
                Loan(s, amount, pct, TRUE, TRUE, TRUE) =>
                    /\ members'[Target(s)].loan_due
                          = row[s].loan_due + TotalDue(amount, pct)
                    /\ Len(history') = Len(history) + 1
          /\ \A amount \in {100} :
                Repayment(s, amount, TRUE, TRUE) =>
                    /\ members'[Target(s)].loan_due = Max(0, row[s].loan_due - amount)
                    /\ Len(history') = Len(history) + 1
      ]_vars

\* two contributions of 100 to A are logged and A's stored total is 100
C10_Witness ==
    /\ Len(members) = 1
    /\ Len(history) = 2
    /\ \A i \in 1..2 : history[i].type = "contribution" /\ history[i].amount = 100
                       /\ history[i].member = "A"
    /\ members[1].contributed = 100
    /\ \A s \in Sessions : pc[s] = "idle"

(***************************************************************************)
(* Properties of the recorder against a store that refuses the secondary   *)
(* writes (checked under SpecFaulty).                                      *)
(***************************************************************************)
\* the members update of the handler is what the table holds after the step
Kept(s, fields) == members' = UpdateMember(members, row[s].id, fields)

\* the handler ran to its end: the run is over, the cache was cleared and
\* the rerun loaded the tables as stored
Succeeded(s) == pc'[s] = "idle" /\ cache' = <<members', app_state', history'>>

\* the step added one row of this type and member to the history
Appended(typ, name) ==
    /\ Len(history') = Len(history) + 1
    /\ SubSeq(history', 1, Len(history)) = history
    /\ history'[Len(history')][Guess.tcol] = typ
    /\ history'[Len(history')][Guess.mcol] = name

\* C11: a recorder handler whose history append fails under both payloads,
\* or (for a loan) whose app_state update fails, still leaves its members
\* update in the table and runs to its end as a success; after a failed
\* app_state update the loan's history row is still appended when the
\* store accepts the insert.
C11_BestEffort ==
    [][\A s \in Sessions :
         /\ \A amount \in FaultyAmounts, fp \in FaultyParts :
               Contribution(s, amount, fp, FALSE, FALSE) =>
                  /\ Kept(s, [contributed |-> row[s].contributed + amount,
                              foundation_contrib |-> row[s].foundation_contrib + fp])
                  /\ history' = history
                  /\ Succeeded(s)
         /\ \A amount \in FaultyRepayments :
               Repayment(s, amount, FALSE, FALSE) =>
                  /\ Kept(s, [loan_due |-> Max(0, row[s].loan_due - amount)])
                  /\ history' = history
                  /\ Succeeded(s)
         /\ \A amount \in FaultyAmounts, pct \in FaultyPercents :
               LET new_due == row[s].loan_due + amount + (amount * pct) \div 100
               IN /\ \A pool_ok \in BOOLEAN :
                        Loan(s, amount, pct, pool_ok, FALSE, FALSE) =>
                           /\ Kept(s, [loan_due |-> new_due])
                           /\ history' = history
                           /\ Succeeded(s)
                  /\ \A ok1, ok2 \in BOOLEAN :
                        Loan(s, amount, pct, FALSE, ok1, ok2) =>
                           /\ Kept(s, [loan_due |-> new_due])
                           /\ app_state' = app_state
                           /\ Succeeded(s)
                           /\ (ok1 /\ hcols = PrimaryCols) \/ (ok2 /\ hcols = FallbackCols)
                                 => Appended("loan", row[s].name)
      ]_vars

\* a loan was recorded although neither the pool row nor the history took
\* the write
C11_Witness ==
    /\ members[1].loan_due = 1050
    /\ PoolInterest = 0
    /\ history = <<>>
    /\ pc["s1"] = "idle"
    /\ cache = store

(***************************************************************************)
(* Properties of preview and write-back (checked under SpecRestore).       *)
(***************************************************************************)
\* the roster row m carrying the three totals of the preview row r
Restored(m, r) ==
    [m EXCEPT !.contributed = r.contributed,
              !.foundation_contrib = r.foundation_contrib,
              !.loan_due = r.loan_due]

\* C12: the write-back loop updates one member per preview row, in the
\* order of the roster; when the update of row k is refused the handler
\* shows the error, the rows before k hold the preview's totals, row k and
\* the rows after it hold what was stored before, and the cache of
\* load_data is not cleared.
C12_PartialWriteBack ==
    [][\A s \in Sessions, k \in 1..MaxMembers :
         WriteBack(s, k) =>
            LET df == rebuilt[s].df
            IN /\ \A n \in DOMAIN df : n \in DOMAIN members /\ members[n].id = df[n].id
               /\ DOMAIN members' = DOMAIN members
               /\ \A n \in DOMAIN members :
                     members'[n] = IF n < k THEN Restored(members[n], df[n]) ELSE members[n]
               /\ restore_msg'[s] = "error"
               /\ cache' = cache
      ]_vars

\* the update of the second row was refused: the first member holds the
\* preview's totals, the second does not, the error is on the page and the
\* cache still holds the roster as it was before
C12_Witness ==
    /\ restore_msg["s1"] = "error"
    /\ Len(rebuilt["s1"].df) = 2 /\ Len(members) = 2
    /\ members[1] = Restored(members[1], rebuilt["s1"].df[1])
    /\ members[2] # Restored(members[2], rebuilt["s1"].df[2])
    /\ cache[1] # members
    /\ cache[1][2] = members[2]

\* C13: the preview a session holds changes only when that session runs a
\* preview, and is then the rebuild of the tables as they are at that time;
\* a write-back writes the three totals of each row of that preview as they
\* stand, whatever the recorder stored since, and touches nothing else; with
\* no preview in the session, or an empty one, the button changes no table.
C13_WritesPreviewVerbatim ==
    [][\A s \in Sessions :
         /\ rebuilt'[s] # rebuilt[s] =>
               /\ rebuilt'[s].has
               /\ rebuilt'[s].df = rebuild_members_from_history(members, FetchHistory)
               /\ UNCHANGED store
         /\ WriteBack(s, 0) =>
               LET df == rebuilt[s].df
               IN /\ DOMAIN members' = DOMAIN members
                  /\ \A n \in DOMAIN members :
                        members'[n] = IF n \in DOMAIN df
                                      THEN Restored(members[n], df[n])
                                      ELSE members[n]
                  /\ UNCHANGED <<app_state, history, rebuilt>>
         /\ (is_admin[s] /\ pc[s] = "idle" /\ (~rebuilt[s].has \/ rebuilt[s].df = <<>>)) =>
               /\ \A k \in 0..MaxMembers : ~WriteBack(s, k)
               /\ WriteBackEmpty(s) => UNCHANGED store
      ]_vars

\* a contribution of 100 to A was recorded after the preview and the
\* write-back put A's total back to what the preview held
C13_Witness ==
    /\ rebuilt["s1"].has /\ rebuilt["s1"].df # <<>>
    /\ \A n \in DOMAIN rebuilt["s1"].df :
          members[n] = Restored(members[n], rebuilt["s1"].df[n])
    /\ \E i \in DOMAIN history :
          /\ history[i]["type"] = "contribution"
          /\ history[i]["member"] = "A"
          /\ history[i]["amount"] = 100
    /\ members[1].contributed = 70
    /\ restore_msg["s1"] = "none"
    /\ cache = store

====
